---------------------------- MODULE Spec2Model ----------------------------
(***************************************************************************)
(* Model of the trivia API backend, src/backend/flaskr/__init__.py.        *)
(*                                                                         *)
(* The question store (models.py: Question, Category, insert, delete,      *)
(* format) is an ordered collection of records; every route handler is an  *)
(* operator computing its response from the request and the store, and an  *)
(* action that applies it.  A question text is a sequence of one-character *)
(* strings, so that substring and pattern matching are computed.           *)
(***************************************************************************)
EXTENDS Integers, Sequences, FiniteSets, TLC

VARIABLES
    questions,   \* rows of the questions table, in storage order
    categories,  \* rows of the categories table (never written by the API)
    nextId,      \* the store's identifier sequence
    inserted,    \* history: every row ever inserted, in insertion order
    deleted,     \* history: identifiers removed by a successful delete
    resp,        \* the last response sent
    client,      \* caller-side state (accumulated pages, quiz session)
    threads      \* per-request position and locals of in-flight handlers

vars == <<questions, categories, nextId, inserted, deleted, resp, client, threads>>

----------------------------------------------------------------------------
(* Bounds and program constants *)

QUESTIONS_PER_PAGE == 10

MaxSeed == 13        \* rows pre-seeded in the store of the main specification
MaxAdds == 1         \* successful inserts per behaviour
PageBelow == 2       \* requested pages go down to -PageBelow
MaxPage == 2         \* ... and up to MaxPage
NumCats == 2         \* categories 1..NumCats exist
MaxItems == 25       \* longest list handed to the pager
MaxPagerPages == 4   \* pages a caller walks through
MaxQuizQs == 2       \* rows in the store of the quiz specification
MaxSessionQs == 3    \* rows in the store of the quiz session specification
MaxSearchQs == 2     \* rows in the store of the search specification
MaxTermLen == 2      \* longest search term
NumThreads == 2      \* requests in flight at once

----------------------------------------------------------------------------
(* Generic helpers *)

Min(a, b) == IF a < b THEN a ELSE b
Max(a, b) == IF a > b THEN a ELSE b

Range(s) == {s[i] : i \in DOMAIN s}

Ids(qs) == {qs[i].id : i \in DOMAIN qs}

\* The empty mapping (a request without query arguments / without keys).
NoArgs == <<>>

\* Python's s[start:end] for a list s and integers start, end: negative
\* indices count from the end, out-of-range indices are clamped.
PyIndex(i, n) == IF i < 0 THEN Max(i + n, 0) ELSE Min(i, n)

PySlice(s, start, end) ==
    SubSeq(s, PyIndex(start, Len(s)) + 1, PyIndex(end, Len(s)))

----------------------------------------------------------------------------
(* The store: models.py *)

\* Question.format()
Format(q) ==
    [id |-> q.id, question |-> q.question, answer |-> q.answer,
     category |-> q.category, difficulty |-> q.difficulty]

FormatAll(qs) == [i \in DOMAIN qs |-> Format(qs[i])]

\* Question(...).insert(): the store assigns the identifier and appends.
NewQuestion(id, q, a, c, d) ==
    [id |-> id, question |-> q, answer |-> a, category |-> c, difficulty |-> d]

\* question.delete(): the row leaves the table, the others keep their order.
DeleteRow(qs, id) == SelectSeq(qs, LAMBDA q : q.id # id)

CategoryRows == [i \in 1..NumCats |-> [id |-> i, type |-> "type"]]

----------------------------------------------------------------------------
(* paginate_questions *)

\* request.args.get('page', 1, type=int)
PageArg(args) == IF "page" \in DOMAIN args THEN args.page ELSE 1

\* Faulty variant: the page number is used as a 0-based index.
paginate_questions_zero_based(args, selection) ==
    LET page  == PageArg(args)
        start == page * QUESTIONS_PER_PAGE
        end   == start + QUESTIONS_PER_PAGE
    IN  PySlice(FormatAll(selection), start, end)

paginate_questions(args, selection) ==
    LET page  == PageArg(args)
        start == (page - 1) * QUESTIONS_PER_PAGE
        end   == start + QUESTIONS_PER_PAGE
    IN  PySlice(FormatAll(selection), start, end)


----------------------------------------------------------------------------
(* GET /questions *)

\* categories[category.id] = category.type for every category row
CategoryDict(cats) ==
    [c \in {cats[i].id : i \in DOMAIN cats} |->
        (CHOOSE r \in Range(cats) : r.id = c).type]

\* Faulty variant: total_questions counts the page instead of the selection.
get_questions_resp_pagecount(args, qs, cats) ==
    LET current_questions == paginate_questions(args, qs)
    IN  IF Len(current_questions) = 0
        THEN [status |-> 404]
        ELSE [status |-> 200,
              body |-> [success |-> TRUE,
                        questions |-> current_questions,
                        total_questions |-> Len(current_questions),
                        categories |-> CategoryDict(cats)]]

get_questions_resp(args, qs, cats) ==
    LET selection         == qs
        total_questions   == Len(selection)
        current_questions == paginate_questions(args, selection)
    IN  IF Len(current_questions) = 0
        THEN [status |-> 404]
        ELSE [status |-> 200,
              body |-> [success |-> TRUE,
                        questions |-> current_questions,
                        total_questions |-> total_questions,
                        categories |-> CategoryDict(cats)]]

----------------------------------------------------------------------------
(* DELETE /questions/<question_id> *)

\* Question.query.filter(Question.id == question_id).one_or_none()
HasQuestion(qs, id) == \E i \in DOMAIN qs : qs[i].id = id

\* The body of the try block: it raises (abort(404) for a missing row, or the
\* store's own error from question.delete()) or returns the payload.
delete_try(question_id, qs, storeOk) ==
    IF ~HasQuestion(qs, question_id)
    THEN [raised |-> TRUE, exc |-> "NotFound", store |-> qs]
    ELSE IF ~storeOk
    THEN [raised |-> TRUE, exc |-> "StoreError", store |-> qs]
    ELSE LET after == DeleteRow(qs, question_id)
         IN  [raised |-> FALSE, store |-> after,
              body |-> [success |-> TRUE, deleted |-> question_id,
                        total_books |-> Len(after)]]

\* The bare "except:" turns every exception of the try block, the
\* HTTPException of abort(404) included, into abort(422).
delete_question_resp(question_id, qs, storeOk) ==
    LET t == delete_try(question_id, qs, storeOk)
    IN  IF t.raised
        THEN [status |-> 422, store |-> t.store]
        ELSE [status |-> 200, store |-> t.store, body |-> t.body]

----------------------------------------------------------------------------
(* POST /questions *)

\* "not (new_question and new_answer and new_category and new_difficulty)"
\* with request.json.get(key) being None for a missing key.
AddFieldsPresent(json) ==
    /\ "question" \in DOMAIN json /\ json.question # <<>>
    /\ "answer" \in DOMAIN json /\ json.answer # ""
    /\ "category" \in DOMAIN json /\ json.category # 0
    /\ "difficulty" \in DOMAIN json /\ json.difficulty # 0

\* Lines 156-162: the payload, from the inserted row and the rows of the
\* later Question.query.all().
add_question_payload(question, all) ==
    [success |-> TRUE, question |-> Format(question),
     total_questions |-> Len(all)]

\* The handler run against one state qs of the store.
add_question_resp(json, qs, id) ==
    IF ~AddFieldsPresent(json)
    THEN [status |-> 400, store |-> qs]
    ELSE LET question == NewQuestion(id, json.question, json.answer,
                                     json.category, json.difficulty)
             after    == Append(qs, question)
         IN  [status |-> 200, store |-> after,
              body |-> add_question_payload(question, after)]

----------------------------------------------------------------------------
(* GET /categories/<id>/questions *)

Digit == <<"0", "1", "2", "3", "4", "5", "6", "7", "8", "9">>

\* str(n) for n >= 0
RECURSIVE Str(_)
Str(n) == IF n < 10 THEN Digit[n + 1]
          ELSE Str(n \div 10) \o Digit[(n % 10) + 1]

\* Category.query.filter_by(id=id).one_or_none()
FindCategory(cats, id) == {r \in Range(cats) : r.id = id}

\* Faulty variant: the category filter is dropped from the query.
QuestionsOfCategory_nofilter(qs, category) == qs

\* Question.query.filter_by(category=str(category.id)).all(): the category
\* column is compared with the decimal text of the category's identifier.
QuestionsOfCategory(qs, category) ==
    SelectSeq(qs, LAMBDA q : Str(q.category) = Str(category.id))

\* Lines 205-214: the payload, from the rows of the selection query and the
\* rows of the later Question.query.all().
by_category_payload(category, args, selection, all) ==
    LET paginated == paginate_questions(args, selection)
    IN  [status |-> 200,
         body |-> [success |-> TRUE,
                   questions |-> paginated,
                   total_questions |-> Len(all),
                   current_category |-> category.type]]

\* The handler run against one state qs of the store.
get_questions_by_category_resp(id, args, qs, cats) ==
    IF FindCategory(cats, id) = {}
    THEN [status |-> 400]
    ELSE LET category == CHOOSE r \in FindCategory(cats, id) : TRUE
         IN  by_category_payload(category, args,
                                 QuestionsOfCategory(qs, category), qs)

----------------------------------------------------------------------------
(* The requests of the main specification *)

Pages == (0 - PageBelow)..MaxPage

ArgsInputs == {NoArgs} \cup {[page |-> p] : p \in Pages}

CategoryIds == 0..(NumCats + 1)

SeedCategory(i) == IF i % 5 = 0 THEN 2 ELSE 1

\* A store as the seed script leaves it: n rows with identifiers 1..n.
Seed(n) ==
    [i \in 1..n |-> NewQuestion(i, <<"a">>, "x", SeedCategory(i), 1)]

AddBodies ==
    {NoArgs} \cup
    [question : {<<>>, <<"b">>}, answer : {"y"},
     category : 0..NumCats, difficulty : {0, 1}]

\* Identifiers a delete is tried on: the first row, a row of category 2, the
\* newest identifier handed out, and one never handed out.
DeleteIds(next) == {1, 5, next - 1, next}

Idle == [op |-> "none", status |-> 0]

Init ==
    /\ \E n \in {0, MaxSeed} :
          questions = Seed(n) /\ inserted = Seed(n) /\ nextId = n + 1
    /\ categories = CategoryRows
    /\ deleted = {}
    /\ resp = Idle
    /\ client = [kind |-> "caller", adds |-> 0]
    /\ threads = <<>>

get_questions ==
    \E args \in ArgsInputs :
        LET r == get_questions_resp(args, questions, categories)
        IN  /\ resp' = [op |-> "get_questions", req |-> [args |-> args], out |-> r]
            /\ UNCHANGED <<questions, categories, nextId, inserted, deleted,
                           client, threads>>

delete_question ==
    \E question_id \in DeleteIds(nextId), storeOk \in BOOLEAN :
        LET r == delete_question_resp(question_id, questions, storeOk)
        IN  /\ questions' = r.store
            /\ deleted' = IF r.status = 200 THEN deleted \cup {question_id}
                          ELSE deleted
            /\ resp' = [op |-> "delete_question",
                        req |-> [question_id |-> question_id, before |-> questions],
                        out |-> r]
            /\ UNCHANGED <<categories, nextId, inserted, client, threads>>

add_question ==
    \E json \in AddBodies :
        LET r == add_question_resp(json, questions, nextId)
        IN  /\ client.adds < MaxAdds
            /\ questions' = r.store
            /\ nextId' = IF r.status = 200 THEN nextId + 1 ELSE nextId
            /\ client' = IF r.status = 200
                         THEN [client EXCEPT !.adds = @ + 1] ELSE client
            /\ resp' = [op |-> "add_question", req |-> [json |-> json], out |-> r]
            /\ inserted' = IF r.status = 200
                           THEN Append(inserted, r.store[Len(r.store)])
                           ELSE inserted
            /\ UNCHANGED <<categories, deleted, threads>>

get_questions_by_category ==
    \E id \in CategoryIds, args \in ArgsInputs :
        LET r == get_questions_by_category_resp(id, args, questions, categories)
        IN  /\ resp' = [op |-> "get_questions_by_category",
                        req |-> [id |-> id, args |-> args], out |-> r]
            /\ UNCHANGED <<questions, categories, nextId, inserted, deleted,
                           client, threads>>

Next ==
    \/ get_questions
    \/ delete_question
    \/ add_question
    \/ get_questions_by_category

Spec == Init /\ [][Next]_vars


----------------------------------------------------------------------------
(* Properties of the main specification *)

IsDelete == resp.op = "delete_question"
IsList == resp.op = "get_questions"
IsByCategory == resp.op = "get_questions_by_category"

\* The rows that were inserted and not deleted since, as the caller sees them.
Surviving == FormatAll(SelectSeq(inserted, LAMBDA q : q.id \notin deleted))

\* A caller listing every page: pages 1, 2, ... until the first 404.
RECURSIVE ListFrom(_)
ListFrom(p) ==
    LET r == get_questions_resp([page |-> p], questions, categories)
    IN  IF r.status = 200 THEN r.body.questions \o ListFrom(p + 1) ELSE <<>>

\* C5: deleting an identifier that is not in the store is answered 404 (not
\* 422) and leaves the store as it was.
C5_DeleteAbsentIsNotFound ==
    (IsDelete /\ ~HasQuestion(resp.req.before, resp.req.question_id))
        => (resp.out.status = 404 /\ questions = resp.req.before)

\* C7 as stated: a request for an existing category (here: without a page
\* argument) returns every stored question of that category, in storage order.
C7_ByCategoryReturnsAll ==
    (IsByCategory /\ resp.out.status = 200 /\ DOMAIN resp.req.args = {})
        => resp.out.body.questions =
              SelectSeq(FormatAll(questions),
                        LAMBDA q : q.category = resp.req.id)

\* C7 amended: the response holds only questions of the category, a contiguous
\* run of them in storage order; for a page p >= 1 (default 1) it is exactly
\* the ((p-1)*10+1)-th to the (p*10)-th of them, at most ten.
C7_ByCategoryReturnsPage ==
    (IsByCategory /\ resp.out.status = 200) =>
        LET all == SelectSeq(FormatAll(questions),
                             LAMBDA q : q.category = resp.req.id)
            got == resp.out.body.questions
            p   == IF DOMAIN resp.req.args = {} THEN 1 ELSE resp.req.args.page
            lo  == (p - 1) * 10
        IN  /\ \E off \in 0..Len(all) :
                 /\ off + Len(got) <= Len(all)
                 /\ \A i \in 1..Len(got) : got[i] = all[off + i]
            /\ p >= 1 =>
                 /\ Len(got) = Max(0, Min(10, Len(all) - lo))
                 /\ \A i \in 1..Len(got) : got[i] = all[lo + i]

\* C7 witness: a category with more than ten questions was listed and the
\* response holds ten of them.
C7_Witness ==
    /\ IsByCategory /\ resp.out.status = 200
    /\ Len(SelectSeq(questions, LAMBDA q : q.category = resp.req.id)) > 10
    /\ Len(resp.out.body.questions) = 10

\* C8: identifiers are distinct, no deleted identifier is in the store, a
\* listing of all pages returns exactly the rows inserted and not deleted
\* since, and a listing's total_questions is the size of the store.
C8_ListingMatchesStore ==
    /\ \A i, j \in DOMAIN questions :
          questions[i].id = questions[j].id => i = j
    /\ Ids(questions) \cap deleted = {}
    /\ ListFrom(1) = Surviving
    /\ (IsList /\ resp.out.status = 200) =>
          /\ resp.out.body.total_questions = Len(Surviving)
          /\ \A i \in DOMAIN resp.out.body.questions :
                /\ resp.out.body.questions[i] \in Range(Surviving)
                /\ resp.out.body.questions[i].id \notin deleted

\* C8 witness: after an insert and a delete, the second page of a store of
\* more than ten rows was listed.
C8_Witness ==
    /\ IsList /\ resp.out.status = 200
    /\ deleted # {} /\ client.adds > 0 /\ Len(questions) > 10
    /\ DOMAIN resp.req.args # {} /\ resp.req.args.page = 2

\* C10: a request for a page below 1 is rejected or answered as page 1.
C10_PageBelowOneRejectedOrFirst ==
    ((IsList \/ IsByCategory) /\ DOMAIN resp.req.args # {}
        /\ resp.req.args.page < 1 /\ resp.out.status = 200)
    => resp.out.body.questions =
          (IF IsList
           THEN get_questions_resp([page |-> 1], questions, categories)
           ELSE get_questions_by_category_resp(resp.req.id, [page |-> 1],
                                               questions, categories)
          ).body.questions


----------------------------------------------------------------------------
(* The pager on its own: a caller walks through pages 1, 2, ... of a list *)

InitPaginate ==
    /\ \E n \in 0..MaxItems :
          questions = Seed(n) /\ inserted = Seed(n) /\ nextId = n + 1
    /\ categories = CategoryRows
    /\ deleted = {}
    /\ resp = Idle
    /\ client = [kind |-> "pager", page |-> 0, pages |-> <<>>]
    /\ threads = <<>>

paginate_next ==
    LET args == [page |-> client.page + 1]
        r    == paginate_questions(args, questions)
    IN  /\ client.page < MaxPagerPages
        /\ resp' = [op |-> "paginate_questions", req |-> [args |-> args], out |-> r]
        /\ client' = [client EXCEPT !.page = @ + 1, !.pages = @ \o r]
        /\ UNCHANGED <<questions, categories, nextId, inserted, deleted, threads>>

NextPaginate == paginate_next

SpecPaginate == InitPaginate /\ [][NextPaginate]_vars

Take(s, n) == SubSeq(s, 1, Min(n, Len(s)))

\* C4: a page holds at most 10 items, pages 1..N concatenated are the first
\* N*10 items of the list, and a page past the last one is empty.
C4_PagesArePrefix ==
    client.page >= 1 =>
        /\ Len(resp.out) <= 10
        /\ client.pages = Take(FormatAll(questions), client.page * 10)
        /\ (client.page - 1) * 10 >= Len(questions) => resp.out = <<>>

\* C4 witness: the caller has read a full page, a partial page and a page
\* past the end of a list of 11..19 items.
C4_Witness ==
    /\ client.page = 3 /\ resp.out = <<>>
    /\ Len(questions) > 10 /\ Len(questions) < 20
    /\ Len(client.pages) = Len(questions)

----------------------------------------------------------------------------
(* POST /quizzes *)

\* "if not quiz_category": the key is missing (None) or an empty object.
QuizCategoryGiven(json) ==
    "quiz_category" \in DOMAIN json /\ DOMAIN json.quiz_category # {}

\* Faulty variant: the exclusion filter is dropped from the query.
QuizCandidates_noexclusion(json, qs) ==
    LET category_id == json.quiz_category.id
    IN  IF category_id # 0
        THEN SelectSeq(qs, LAMBDA q : q.category = category_id)
        ELSE qs

\* Faulty variant: the category filter is dropped from the query.
QuizCandidates_nocategory(json, qs) ==
    SelectSeq(qs, LAMBDA q : q.id \notin json.previous_questions)

\* The rows of the query built at lines 238-242.
QuizCandidates(json, qs) ==
    LET previous_questions == json.previous_questions
        category_id        == json.quiz_category.id
    IN  IF category_id # 0
        THEN SelectSeq(qs, LAMBDA q : /\ q.category = category_id
                                      /\ q.id \notin previous_questions)
        ELSE SelectSeq(qs, LAMBDA q : q.id \notin previous_questions)

\* The responses the handler can send: order_by(func.random()).first() is any
\* row of the query, or None when the query has no row.
get_quiz_questions_resp(json, qs) ==
    IF ~QuizCategoryGiven(json)
    THEN {[status |-> 400]}
    ELSE LET rows == QuizCandidates(json, qs)
         IN  IF Len(rows) = 0
             THEN {[status |-> 200, body |-> NoArgs]}
             ELSE {[status |-> 200, body |-> [question |-> Format(rows[i])]] :
                      i \in DOMAIN rows}

\* Stores of up to max rows, each row of any existing category.
QuizStores(max) ==
    UNION {
        {[i \in 1..n |-> NewQuestion(i, <<"a">>, "x", f[i], 1)] :
            f \in [1..n -> 1..NumCats]} : n \in 0..max}

QuizBodies ==
    [previous_questions : SUBSET (1..(MaxQuizQs + 1))]
    \cup [previous_questions : SUBSET (1..(MaxQuizQs + 1)),
          quiz_category : {NoArgs} \cup [id : CategoryIds]]

InitQuiz ==
    /\ \E qs \in QuizStores(MaxQuizQs) :
          questions = qs /\ inserted = qs /\ nextId = Len(qs) + 1
    /\ categories = CategoryRows
    /\ deleted = {}
    /\ resp = Idle
    /\ client = [kind |-> "caller", adds |-> 0]
    /\ threads = <<>>

get_quiz_questions ==
    \E json \in QuizBodies :
        \E r \in get_quiz_questions_resp(json, questions) :
            /\ resp' = [op |-> "get_quiz_questions", req |-> [json |-> json], out |-> r]
            /\ UNCHANGED <<questions, categories, nextId, inserted, deleted,
                           client, threads>>

NextQuiz == get_quiz_questions

SpecQuiz == InitQuiz /\ [][NextQuiz]_vars

IsQuiz == resp.op = "get_quiz_questions"

HasQuizQuestion(r) == r.status = 200 /\ "question" \in DOMAIN r.body

\* C1: the handler returns no question, or a stored question that is not in
\* previous_questions and, for a non-zero category id, is of that category.
C1_QuizQuestionEligible ==
    (IsQuiz /\ HasQuizQuestion(resp.out)) =>
        LET q   == resp.out.body.question
            req == resp.req.json
        IN  /\ \E i \in DOMAIN questions : Format(questions[i]) = q
            /\ q.id \notin req.previous_questions
            /\ req.quiz_category.id # 0 => q.category = req.quiz_category.id

\* C1 witness: with category id 0 and a non-empty exclusion set, a question of
\* category 2 was returned.
C1_Witness ==
    /\ IsQuiz /\ HasQuizQuestion(resp.out)
    /\ resp.req.json.quiz_category.id = 0
    /\ resp.req.json.previous_questions \cap Ids(questions) # {}
    /\ resp.out.body.question.category = 2

----------------------------------------------------------------------------
(* A quiz session: the caller adds each returned identifier to the exclusion *)
(* set and asks again, until the empty payload comes back.                   *)

InitSession ==
    /\ \E qs \in QuizStores(MaxSessionQs) :
          questions = qs /\ inserted = qs /\ nextId = Len(qs) + 1
    /\ categories = CategoryRows
    /\ deleted = {}
    /\ resp = Idle
    /\ \E c \in CategoryIds :
          client = [kind |-> "session", category |-> c,
                    previous_questions |-> {}, draws |-> 0,
                    finished |-> FALSE, errors |-> 0]
    /\ threads = <<>>

quiz_draw ==
    LET json == [previous_questions |-> client.previous_questions,
                 quiz_category |-> [id |-> client.category]]
    IN  /\ ~client.finished
        /\ \E r \in get_quiz_questions_resp(json, questions) :
              /\ resp' = [op |-> "get_quiz_questions", req |-> [json |-> json],
                          out |-> r]
              /\ client' =
                    IF r.status # 200
                    THEN [client EXCEPT !.errors = 1, !.finished = TRUE]
                    ELSE IF "question" \in DOMAIN r.body
                    THEN [client EXCEPT
                            !.previous_questions = @ \cup {r.body.question.id},
                            !.draws = @ + 1]
                    ELSE [client EXCEPT !.finished = TRUE]
        /\ UNCHANGED <<questions, categories, nextId, inserted, deleted, threads>>

NextSession == quiz_draw

\* Every request is served: the caller's next draw is answered.
SpecSession == InitSession /\ [][NextSession]_vars /\ WF_vars(quiz_draw)

\* The questions of the session's category (every question for category 0).
SessionEligible ==
    {q \in Range(questions) : client.category = 0 \/ q.category = client.category}

\* C2: the session ends with the empty payload, only when every eligible
\* question has been drawn, after exactly as many draws as there are eligible
\* questions, and no draw is answered with an error.
C2_SessionExhausts ==
    /\ [](client.finished =>
            /\ {q.id : q \in SessionEligible} \subseteq client.previous_questions
            /\ client.draws = Cardinality(SessionEligible))
    /\ [](client.errors = 0)
    /\ <>(client.finished)

\* C2 witness: a session restricted to one category ended after two draws
\* while the store holds a question of another category.
C2_Witness ==
    /\ client.finished /\ client.draws = 2 /\ client.category # 0
    /\ Cardinality(SessionEligible) < Len(questions)


----------------------------------------------------------------------------
(* POST /questions/search *)

\* The characters of search terms and question texts: letters in both cases,
\* and two characters that re reads as pattern syntax.
SearchChars == {"a", "A", "b", ".", "("}

\* re.IGNORECASE compares letters by their case-folded form.
Lower(c) == IF c = "A" THEN "a" ELSE c

\* re.compile(term): over SearchChars a pattern fails to compile exactly when
\* it opens a group, which nothing can close ("missing ), unterminated
\* subpattern").
PatternCompiles(term) == "(" \notin Range(term)

\* One pattern character against one text character: "." matches any
\* character (the texts hold no newline), a letter matches itself in either case.
ReCharMatches(p, c) == p = "." \/ Lower(p) = Lower(c)

\* re.search(term, text, re.IGNORECASE) for a pattern that compiles: the
\* pattern matches at some position of the text.
ReSearch(term, text) ==
    \E i \in 1..(Len(text) - Len(term) + 1) :
        \A j \in 1..Len(term) : ReCharMatches(term[j], text[i + j - 1])

\* request.json.get('searchTerm', '')
SearchTerm(json) == IF "searchTerm" \in DOMAIN json THEN json.searchTerm ELSE <<>>

\* Faulty variant: an empty result is answered 404.
search_question_resp_notfound(json, qs) ==
    LET search_term == SearchTerm(json)
    IN  IF Len(qs) > 0 /\ ~PatternCompiles(search_term)
        THEN [status |-> 500]
        ELSE LET found == FormatAll(SelectSeq(qs,
                              LAMBDA q : ReSearch(search_term, q.question)))
             IN  IF Len(found) = 0
                 THEN [status |-> 404]
                 ELSE [status |-> 200,
                       body |-> [questions |-> found,
                                 total_questions |-> Len(found)]]

\* re.search runs once per stored row: with a row in the store a pattern that
\* does not compile raises re.error, which no handler catches (500).
search_question_resp(json, qs) ==
    LET search_term == SearchTerm(json)
    IN  IF Len(qs) > 0 /\ ~PatternCompiles(search_term)
        THEN [status |-> 500]
        ELSE LET found == FormatAll(SelectSeq(qs,
                              LAMBDA q : ReSearch(search_term, q.question)))
             IN  [status |-> 200,
                  body |-> [questions |-> found,
                            total_questions |-> Len(found)]]

RECURSIVE SeqsUpTo(_, _)
SeqsUpTo(S, n) ==
    IF n = 0 THEN {<<>>}
    ELSE LET shorter == SeqsUpTo(S, n - 1)
         IN  shorter \cup {Append(t, c) : t \in shorter, c \in S}

SearchTerms == SeqsUpTo(SearchChars, MaxTermLen)

SearchTexts ==
    {<<"b">>, <<"A", "b">>, <<"b", "a">>, <<"a", ".">>, <<"b", "(", "a">>}

SearchStores ==
    {[i \in DOMAIN ts |-> NewQuestion(i, ts[i], "x", 1, 1)] :
        ts \in SeqsUpTo(SearchTexts, MaxSearchQs)}

InitSearch ==
    /\ \E qs \in SearchStores :
          questions = qs /\ inserted = qs /\ nextId = Len(qs) + 1
    /\ categories = CategoryRows
    /\ deleted = {}
    /\ resp = Idle
    /\ client = [kind |-> "caller", adds |-> 0]
    /\ threads = <<>>

search_question ==
    \E json \in {NoArgs} \cup [searchTerm : SearchTerms] :
        LET r == search_question_resp(json, questions)
        IN  /\ resp' = [op |-> "search_question", req |-> [json |-> json], out |-> r]
            /\ UNCHANGED <<questions, categories, nextId, inserted, deleted,
                           client, threads>>

NextSearch == search_question

SpecSearch == InitSearch /\ [][NextSearch]_vars

IsSearch == resp.op = "search_question"

\* term is a substring of text, letters compared without regard to case.
Contains(term, text) ==
    \E i \in 1..(Len(text) - Len(term) + 1) :
        \A j \in 1..Len(term) : Lower(term[j]) = Lower(text[i + j - 1])

IsLiteral(term) == \A j \in DOMAIN term : term[j] \notin {".", "("}

\* C3: a search returns exactly the questions whose text contains the term as
\* a literal substring, case-insensitively, in storage order.
C3_SearchIsLiteralSubstring ==
    IsSearch =>
        /\ resp.out.status = 200
        /\ resp.out.body.questions =
              FormatAll(SelectSeq(questions,
                  LAMBDA q : Contains(SearchTerm(resp.req.json), q.question)))

----------------------------------------------------------------------------
(* Concurrent requests: each handler is a thread of the server that runs its *)
(* store queries one at a time; every query and every commit is atomic and   *)
(* sees the rows committed so far.                                           *)

Threads == 1..NumThreads

InFlight(th) == th.pc \notin {"idle", "done"}

\* Every request in flight has the store in state qs during its call.
Observed(ths, qs) ==
    [u \in DOMAIN ths |->
        IF InFlight(ths[u]) THEN [ths[u] EXCEPT !.seen = @ \cup {qs}] ELSE ths[u]]

Finish(th, r) == [th EXCEPT !.pc = "done", !.out = r]

ConcRequests(next) ==
    {[op |-> "get_questions", args |-> NoArgs],
     [op |-> "get_questions_by_category", id |-> 1, args |-> NoArgs],
     [op |-> "get_questions_by_category", id |-> 0, args |-> NoArgs],
     [op |-> "add_question",
      json |-> [question |-> <<"b">>, answer |-> "y", category |-> 1,
                difficulty |-> 1]]}
    \cup {[op |-> "delete_question", question_id |-> i] : i \in {1, next - 1, next}}

FirstStep(op) ==
    CASE op = "get_questions" -> "gq_select"
      [] op = "get_questions_by_category" -> "bc_select"
      [] op = "add_question" -> "add_insert"
      [] op = "delete_question" -> "del_find"

InitConc ==
    /\ questions = Seed(2) /\ inserted = Seed(2) /\ nextId = 3
    /\ categories = CategoryRows
    /\ deleted = {}
    /\ resp = Idle
    /\ client = [kind |-> "caller", adds |-> 0]
    /\ threads = [t \in Threads |-> [pc |-> "idle"]]

Respond(t, r) ==
    /\ threads' = [threads EXCEPT ![t] = Finish(@, r)]
    /\ resp' = [op |-> threads[t].req.op, req |-> threads[t].req, out |-> r]

conc_request(t) ==
    /\ threads[t].pc = "idle"
    /\ \E req \in ConcRequests(nextId) :
          /\ req.op = "add_question" => client.adds < MaxAdds
          /\ threads' = [threads EXCEPT ![t] =
                [pc |-> FirstStep(req.op), req |-> req, seen |-> {questions},
                 loc |-> NoArgs, out |-> Idle]]
          /\ client' = IF req.op = "add_question"
                       THEN [client EXCEPT !.adds = @ + 1] ELSE client
    /\ UNCHANGED <<questions, categories, nextId, inserted, deleted, resp>>

\* get_questions, line 78: selection = Question.query.all()
gq_select(t) ==
    /\ threads[t].pc = "gq_select"
    /\ threads' = [threads EXCEPT ![t] =
          [@ EXCEPT !.pc = "gq_categories", !.loc = [selection |-> questions]]]
    /\ UNCHANGED <<questions, categories, nextId, inserted, deleted, resp, client>>

\* get_questions, lines 79-98: Category.query.all() and the response
gq_categories(t) ==
    /\ threads[t].pc = "gq_categories"
    /\ Respond(t, get_questions_resp(threads[t].req.args,
                                     threads[t].loc.selection, categories))
    /\ UNCHANGED <<questions, categories, nextId, inserted, deleted, client>>

\* get_questions_by_category, lines 196-203: the category, then the selection
bc_select(t) ==
    /\ threads[t].pc = "bc_select"
    /\ LET found == FindCategory(categories, threads[t].req.id)
       IN  IF found = {}
           THEN Respond(t, [status |-> 400])
           ELSE LET category == CHOOSE r \in found : TRUE
                IN  /\ threads' = [threads EXCEPT ![t] =
                          [@ EXCEPT !.pc = "bc_count",
                                    !.loc = [category |-> category,
                                             selection |->
                                                QuestionsOfCategory(questions, category)]]]
                    /\ UNCHANGED resp
    /\ UNCHANGED <<questions, categories, nextId, inserted, deleted, client>>

\* get_questions_by_category, lines 206-214: len(Question.query.all())
bc_count(t) ==
    /\ threads[t].pc = "bc_count"
    /\ Respond(t, by_category_payload(threads[t].loc.category, threads[t].req.args,
                                      threads[t].loc.selection, questions))
    /\ UNCHANGED <<questions, categories, nextId, inserted, deleted, client>>

\* add_question, lines 143-154: question.insert()
add_insert(t) ==
    /\ threads[t].pc = "add_insert"
    /\ LET json     == threads[t].req.json
           question == NewQuestion(nextId, json.question, json.answer,
                                   json.category, json.difficulty)
           after    == Append(questions, question)
       IN  /\ questions' = after
           /\ inserted' = Append(inserted, question)
           /\ nextId' = nextId + 1
           /\ threads' = Observed(
                 [threads EXCEPT ![t] =
                     [@ EXCEPT !.pc = "add_count", !.seen = {},
                               !.loc = [question |-> question]]], after)
    /\ UNCHANGED <<categories, deleted, resp, client>>

\* add_question, lines 156-162: len(Question.query.all())
add_count(t) ==
    /\ threads[t].pc = "add_count"
    /\ Respond(t, [status |-> 200,
                   body |-> add_question_payload(threads[t].loc.question, questions)])
    /\ UNCHANGED <<questions, categories, nextId, inserted, deleted, client>>

\* delete_question, lines 110-114: the row, or abort(404) turned into 422
del_find(t) ==
    /\ threads[t].pc = "del_find"
    /\ IF HasQuestion(questions, threads[t].req.question_id)
       THEN /\ threads' = [threads EXCEPT ![t] = [@ EXCEPT !.pc = "del_delete"]]
            /\ UNCHANGED resp
       ELSE Respond(t, [status |-> 422])
    /\ UNCHANGED <<questions, categories, nextId, inserted, deleted, client>>

\* delete_question, line 116: question.delete(); the commit of a row that
\* another request deleted meanwhile raises, which the handler answers 422
del_delete(t) ==
    /\ threads[t].pc = "del_delete"
    /\ LET id == threads[t].req.question_id
       IN  IF HasQuestion(questions, id)
           THEN /\ questions' = DeleteRow(questions, id)
                /\ deleted' = deleted \cup {id}
                /\ threads' = Observed(
                      [threads EXCEPT ![t] = [@ EXCEPT !.pc = "del_count"]],
                      DeleteRow(questions, id))
                /\ UNCHANGED resp
           ELSE /\ Respond(t, [status |-> 422])
                /\ UNCHANGED <<questions, deleted>>
    /\ UNCHANGED <<categories, nextId, inserted, client>>

\* delete_question, lines 118-124: len(Question.query.all())
del_count(t) ==
    /\ threads[t].pc = "del_count"
    /\ Respond(t, [status |-> 200,
                   body |-> [success |-> TRUE,
                             deleted |-> threads[t].req.question_id,
                             total_books |-> Len(questions)]])
    /\ UNCHANGED <<questions, categories, nextId, inserted, deleted, client>>

NextConc ==
    \E t \in Threads :
        \/ conc_request(t)
        \/ gq_select(t)
        \/ gq_categories(t)
        \/ bc_select(t)
        \/ bc_count(t)
        \/ add_insert(t)
        \/ add_count(t)
        \/ del_find(t)
        \/ del_delete(t)
        \/ del_count(t)

SpecConc == InitConc /\ [][NextConc]_vars

\* The response of thread th is what one state qs of the store gives.
FromOneState(th, qs) ==
    CASE th.req.op = "get_questions" ->
            th.out = get_questions_resp(th.req.args, qs, categories)
      [] th.req.op = "get_questions_by_category" ->
            th.out = get_questions_by_category_resp(th.req.id, th.req.args,
                                                    qs, categories)
      [] th.req.op = "add_question" ->
            /\ th.out.body.question \in Range(FormatAll(qs))
            /\ th.out.body.total_questions = Len(qs)
      [] OTHER -> TRUE

\* C9: every finished call's response is computed from a single state that
\* the store had during the call.
C9_SingleSnapshot ==
    \A t \in Threads :
        threads[t].pc = "done" =>
            \E qs \in threads[t].seen : FromOneState(threads[t], qs)

=============================================================================
